---- MODULE Spec2Model ----
(***************************************************************************)
(* A model of src/src/writer/mod.rs, the DER writer of yasna: the tag and  *)
(* length codecs, the scalar encoders, the deferred-length frame of        *)
(* write_sequence, the sorting write_set and the two entry constructors.   *)
(*                                                                         *)
(* 64-bit machine integers are bit vectors (functions 0..63 -> {0,1}, bit  *)
(* i weighing 2^i), so that shifts, casts and the full unsigned and signed *)
(* ranges behave as in the code.  Bytes are the integers 0..255 and a      *)
(* Vec<u8> is a sequence of bytes.                                         *)
(***************************************************************************)
EXTENDS Integers, Sequences, FiniteSets, TLC

VARIABLES
    call,       \* codec calls: the function called and its argument
    out,        \* codec calls: the bytes the call left in its buffer
    mode,       \* which entry constructor runs: "der" or "der_seq"
    long,       \* the run is one of those that write a long byte string
    status,     \* "running", "done" (the constructor returned) or "panicked"
    buf,        \* the Vec<u8> the entry constructor owns
    stack,      \* the open write_sequence / write_set calls, outermost first
    held,       \* the running callback holds a DERWriter it has not used
    ret,        \* what the last nested call returned to the running callback
    result,     \* what the entry constructor returned
    nnext,      \* writers handed out so far
    vals,       \* history: the values written at top level, in call order
    failure,    \* history: the first failure a callback returned, or "None"
    forwarded,  \* history: every callback handed a failure returned it at once
    ev          \* history: the last step taken

codecVars == <<call, out>>
encVars == <<mode, long, status, buf, stack, held, ret, result, nnext, vals, failure, forwarded, ev>>
vars == <<call, out, mode, long, status, buf, stack, held, ret, result, nnext, vals, failure, forwarded, ev>>

(***************************************************************************)
(* Bounds of the model.                                                    *)
(***************************************************************************)
\* The codec inputs hold every value 0..SmallMax besides the powers of two
\* and their neighbours.
SmallMax == 300

\* The most writers one run hands out.
MaxWriters == 2

\* The most bytes all buffers of one run hold together when a value is
\* written (65536 content bytes, and the headers of three frames).
MaxBytes == 65548

(***************************************************************************)
(* Machine integers.                                                       *)
(***************************************************************************)
Bits == 0..63

\* 2^k for the bit weights of a byte and of a small natural.
Pow2(k) == 2^k

\* n as u64, for a natural below 2^31 (a buffer length, a small literal).
U64(n) == [i \in Bits |-> IF i < 31 THEN (n \div Pow2(i)) % 2 ELSE 0]

\* x >> s on u64 (logical).
Shr(x, s) == [i \in Bits |-> IF i + s <= 63 THEN x[i + s] ELSE 0]

\* x >> s on i64 (arithmetic: the sign bit is shifted in).
Sar(x, s) == [i \in Bits |-> IF i + s <= 63 THEN x[i + s] ELSE x[63]]

\* x == 0 and x == -1.
IsZero(x) == \A i \in Bits : x[i] = 0
IsMinusOne(x) == \A i \in Bits : x[i] = 1

RECURSIVE LowBits(_, _)
\* The value of the k low bits of x (k <= 30): x & (2^k - 1).
LowBits(x, k) == IF k = 0 THEN 0 ELSE LowBits(x, k - 1) + x[k - 1] * Pow2(k - 1)

\* x as u8.
AsU8(x) == LowBits(x, 8)

\* x < n for a small literal n.
LtLit(x, n) == (\A i \in 31..63 : x[i] = 0) /\ LowBits(x, 31) < n

RECURSIVE Or8From(_, _, _)
\* a | b on bytes, bit by bit from bit k up.
Or8From(a, b, k) ==
    IF k = 8 THEN 0
    ELSE (IF (a \div Pow2(k)) % 2 = 1 \/ (b \div Pow2(k)) % 2 = 1 THEN Pow2(k) ELSE 0)
         + Or8From(a, b, k + 1)

Or8(a, b) == Or8From(a, b, 0)

\* (a << s) as u8.
Shl8(a, s) == (a * Pow2(s)) % 256

(***************************************************************************)
(* Tags (from the crate root, used here through TAG_* and Tag).            *)
(***************************************************************************)
Primitive == 0
Constructed == 1

Universal == 0

Tag(c, n) == [tag_class |-> c, tag_number |-> n]

TAG_BOOLEAN == Tag(Universal, U64(1))
TAG_INTEGER == Tag(Universal, U64(2))
TAG_OCTETSTRING == Tag(Universal, U64(4))
TAG_NULL == Tag(Universal, U64(5))
TAG_SEQUENCE == Tag(Universal, U64(16))
TAG_SET == Tag(Universal, U64(17))

(***************************************************************************)
(* write_identifier                                                        *)
(***************************************************************************)
RECURSIVE SkipZeroGroupsFrom56(_, _)
\* The skip loop started at shift 56, as the length codec starts its own:
\* the top group (bit 63) is never emitted.
SkipZeroGroupsFrom56(n, shiftnum) ==
    LET s == IF shiftnum > 56 THEN 56 ELSE shiftnum
    IN  IF IsZero(Shr(n, s)) THEN SkipZeroGroupsFrom56(n, s - 7) ELSE s

RECURSIVE SkipZeroGroups(_, _)
\* while (tag_number >> shiftnum) == 0 { shiftnum -= 7 }
SkipZeroGroups(n, shiftnum) ==
    IF IsZero(Shr(n, shiftnum)) THEN SkipZeroGroups(n, shiftnum - 7) ELSE shiftnum

RECURSIVE PushGroups(_, _, _)
\* while shiftnum > 0 { push(128 | ((n >> shiftnum) & 127)); shiftnum -= 7 }
PushGroups(b, n, shiftnum) ==
    IF shiftnum > 0
    THEN PushGroups(Append(b, Or8(128, LowBits(Shr(n, shiftnum), 7))), n, shiftnum - 7)
    ELSE b

WriteIdentifier(b, tag, pc) ==
    LET classid == tag.tag_class
        pcid == pc
    IN  IF LtLit(tag.tag_number, 31)
        THEN Append(b, Or8(Or8(Shl8(classid, 6), Shl8(pcid, 5)), AsU8(tag.tag_number)))
        ELSE LET b0 == Append(b, Or8(Or8(Shl8(classid, 6), Shl8(pcid, 5)), 31))
                 s == SkipZeroGroups(tag.tag_number, 63)
                 b1 == PushGroups(b0, tag.tag_number, s)
             IN  Append(b1, LowBits(tag.tag_number, 7))

(***************************************************************************)
(* write_length                                                            *)
(***************************************************************************)
RECURSIVE SkipZeroBytes(_, _)
\* while (length >> shiftnum) == 0 { shiftnum -= 8 }
SkipZeroBytes(length, shiftnum) ==
    IF IsZero(Shr(length, shiftnum)) THEN SkipZeroBytes(length, shiftnum - 8) ELSE shiftnum

RECURSIVE PushBytesFrom(_, _, _)
\* loop { push((val >> shiftnum) as u8); if shiftnum == 0 { break } shiftnum -= 8 }
PushBytesFrom(b, val, shiftnum) ==
    LET pushed == Append(b, AsU8(Shr(val, shiftnum)))
    IN  IF shiftnum = 0 THEN pushed ELSE PushBytesFrom(pushed, val, shiftnum - 8)

\* write_length with the short form taken for every length of one byte.
WriteLengthShortBelow256(b, length) ==
    IF LtLit(length, 256)
    THEN Append(b, AsU8(length))
    ELSE LET shiftnum == SkipZeroBytes(length, 56)
         IN  PushBytesFrom(Append(b, Or8(128, (shiftnum \div 8) + 1)), length, shiftnum)

\* length is the usize already cast to u64.
WriteLength(b, length) ==
    IF LtLit(length, 128)
    THEN Append(b, AsU8(length))
    ELSE LET shiftnum == SkipZeroBytes(length, 56)
         IN  PushBytesFrom(Append(b, Or8(128, (shiftnum \div 8) + 1)), length, shiftnum)

(***************************************************************************)
(* Scalar writers.  Each takes the writer's buffer and returns it with the *)
(* value appended; all of them return Ok(()).                              *)
(***************************************************************************)
\* A BOOLEAN put in front of what the buffer holds.
WriteBoolInFront(b, val) == <<1, 1, IF val THEN 255 ELSE 0>> \o b

WriteBool(b, val) ==
    LET b1 == WriteIdentifier(b, TAG_BOOLEAN, Primitive)
        b2 == WriteLength(b1, U64(1))
    IN  Append(b2, IF val THEN 255 ELSE 0)

RECURSIVE I64ShiftWholeByte(_, _)
\* The strip loop testing val >> shiftnum, without the sign bit of the byte
\* that would become the first.
I64ShiftWholeByte(val, shiftnum) ==
    IF shiftnum > 0 /\ (IsZero(Sar(val, shiftnum)) \/ IsMinusOne(Sar(val, shiftnum)))
    THEN I64ShiftWholeByte(val, shiftnum - 8)
    ELSE shiftnum

RECURSIVE I64Shift(_, _)
\* while shiftnum > 0 && (val >> (shiftnum-1) == 0 || val >> (shiftnum-1) == -1)
\*     { shiftnum -= 8 }
I64Shift(val, shiftnum) ==
    IF shiftnum > 0 /\ (IsZero(Sar(val, shiftnum - 1)) \/ IsMinusOne(Sar(val, shiftnum - 1)))
    THEN I64Shift(val, shiftnum - 8)
    ELSE shiftnum

RECURSIVE PushBytesFromI64(_, _, _)
\* The push loop of write_i64: the shift is arithmetic.
PushBytesFromI64(b, val, shiftnum) ==
    LET pushed == Append(b, AsU8(Sar(val, shiftnum)))
    IN  IF shiftnum = 0 THEN pushed ELSE PushBytesFromI64(pushed, val, shiftnum - 8)

WriteI64(b, val) ==
    LET shiftnum == I64Shift(val, 56)
        b1 == WriteIdentifier(b, TAG_INTEGER, Primitive)
        b2 == WriteLength(b1, U64((shiftnum \div 8) + 1))
    IN  PushBytesFromI64(b2, val, shiftnum)

RECURSIVE U64Shift(_, _)
\* while shiftnum > 0 && val >> (shiftnum-1) == 0 { shiftnum -= 8 }
U64Shift(val, shiftnum) ==
    IF shiftnum > 0 /\ IsZero(Shr(val, shiftnum - 1))
    THEN U64Shift(val, shiftnum - 8)
    ELSE shiftnum

WriteU64(b, val) ==
    LET shiftnum == U64Shift(val, 64)
        b1 == WriteIdentifier(b, TAG_INTEGER, Primitive)
        b2 == WriteLength(b1, U64((shiftnum \div 8) + 1))
    IN  IF shiftnum = 64
        THEN PushBytesFrom(Append(b2, 0), val, shiftnum - 8)
        ELSE PushBytesFrom(b2, val, shiftnum)

\* val as i64 for a signed value of w bits, and for an unsigned one.
SignExtend(val, w) == [i \in Bits |-> IF i < w THEN val[i] ELSE val[w - 1]]
ZeroExtend(val, w) == [i \in Bits |-> IF i < w THEN val[i] ELSE 0]

WriteI32(b, val) == WriteI64(b, SignExtend(val, 32))
WriteU32(b, val) == WriteI64(b, ZeroExtend(val, 32))
WriteI16(b, val) == WriteI64(b, SignExtend(val, 16))
WriteU16(b, val) == WriteI64(b, ZeroExtend(val, 16))
WriteI8(b, val) == WriteI64(b, SignExtend(val, 8))
WriteU8(b, val) == WriteI64(b, ZeroExtend(val, 8))

\* bytes.reverse()
RECURSIVE Reverse(_)
Reverse(s) == IF s = <<>> THEN <<>> ELSE Append(Reverse(Tail(s)), Head(s))

RECURSIVE NegateNoCarry(_, _, _)
\* The negation loop losing the carry out of each byte.
NegateNoCarry(bytes, k, carry) ==
    IF k > Len(bytes) THEN bytes
    ELSE LET bval == 255 - bytes[k]
         IN  NegateNoCarry([bytes EXCEPT ![k] = (bval + carry) % 256], k + 1, 0)

RECURSIVE NegateFrom(_, _, _)
\* for b in bytes.iter_mut() { bval = 255 - b; *b = (bval + carry) as u8;
\*                             carry = (bval + carry) >> 8 }
NegateFrom(bytes, k, carry) ==
    IF k > Len(bytes) THEN bytes
    ELSE LET bval == 255 - bytes[k]
         IN  NegateFrom([bytes EXCEPT ![k] = (bval + carry) % 256], k + 1,
                        (bval + carry) \div 256)

\* val is what val.to_bytes_le() returns: a sign and the little-endian magnitude.
WriteBigint(b, val) ==
    LET b1 == WriteIdentifier(b, TAG_INTEGER, Primitive)
        bytes == val.bytes
        byteslen == Len(bytes)
    IN  CASE val.sign = "NoSign" -> Append(WriteLength(b1, U64(1)), 0)
          [] val.sign = "Plus" ->
                IF bytes[byteslen] >= 128
                THEN Append(WriteLength(b1, U64(byteslen + 1)), 0) \o Reverse(bytes)
                ELSE WriteLength(b1, U64(byteslen)) \o Reverse(bytes)
          [] val.sign = "Minus" ->
                LET neg == NegateFrom(bytes, 1, 1)
                IN  IF neg[byteslen] < 128
                    THEN Append(WriteLength(b1, U64(byteslen + 1)), 255) \o Reverse(neg)
                    ELSE WriteLength(b1, U64(byteslen)) \o Reverse(neg)

\* bytes is what val.to_bytes_le() returns for the BigUint.
WriteBiguint(b, bytes) ==
    LET b1 == WriteIdentifier(b, TAG_INTEGER, Primitive)
        byteslen == Len(bytes)
    IN  IF bytes = <<0>>
        THEN Append(WriteLength(b1, U64(1)), 0)
        ELSE IF bytes[byteslen] >= 128
             THEN Append(WriteLength(b1, U64(byteslen + 1)), 0) \o Reverse(bytes)
             ELSE WriteLength(b1, U64(byteslen)) \o Reverse(bytes)

WriteBytes(b, bytes) ==
    LET b1 == WriteIdentifier(b, TAG_OCTETSTRING, Primitive)
        b2 == WriteLength(b1, U64(Len(bytes)))
    IN  b2 \o bytes

WriteNull(b) ==
    LET b1 == WriteIdentifier(b, TAG_NULL, Primitive)
    IN  WriteLength(b1, U64(0))

(***************************************************************************)
(* The codecs and the integer writers as functions of their argument:      *)
(* each action is one call on a writer over a fresh buffer, as             *)
(* construct_der(|writer| writer.write_x(arg)) makes it.                   *)
(***************************************************************************)
Ones(k) == [i \in Bits |-> IF i < k THEN 1 ELSE 0]
OneBit(k) == [i \in Bits |-> IF i = k THEN 1 ELSE 0]
OneBitPlus(k) == [i \in Bits |-> IF i = k \/ i = 0 THEN 1 ELSE 0]
Not(x) == [i \in Bits |-> 1 - x[i]]

\* x + 1 (wrapping): bit i flips when every lower bit is set.
Inc(x) == [i \in Bits |-> IF \A j \in 0..(i - 1) : x[j] = 1 THEN 1 - x[i] ELSE x[i]]

\* The unsigned inputs: 0..SmallMax, and 2^k - 1, 2^k, 2^k + 1 for every k.
U64Inputs ==
    {U64(n) : n \in 0..SmallMax}
        \cup {Ones(k) : k \in 0..64}
        \cup {OneBit(k) : k \in Bits}
        \cup {OneBitPlus(k) : k \in Bits}

\* The signed inputs: the same bit patterns and their complements (-x - 1).
I64Inputs == U64Inputs \cup {Not(x) : x \in U64Inputs}

\* The w low bits of x, a value of a w-bit type.
Trunc(x, w) == [i \in 0..(w - 1) |-> x[i]]

RECURSIVE BytesLeFrom(_, _)
\* The little-endian bytes of the magnitude m from byte k up to its last
\* non-zero byte.
BytesLeFrom(m, k) ==
    IF k > 0 /\ IsZero(Shr(m, 8 * k)) THEN <<>>
    ELSE <<AsU8(Shr(m, 8 * k))>> \o (IF k = 7 THEN <<>> ELSE BytesLeFrom(m, k + 1))

\* BigUint::from(u).to_bytes_le(): zero is the one byte 0.
BigUintBytes(u) == BytesLeFrom(u, 0)

\* BigInt::from(v).to_bytes_le(): the sign and the bytes of |v|.
BigIntOfI64(v) ==
    IF IsZero(v) THEN [sign |-> "NoSign", bytes |-> <<0>>]
    ELSE IF v[63] = 1 THEN [sign |-> "Minus", bytes |-> BigUintBytes(Inc(Not(v)))]
    ELSE [sign |-> "Plus", bytes |-> BigUintBytes(v)]

\* BigInt::from(u).to_bytes_le() for an unsigned u.
BigIntOfU64(u) ==
    IF IsZero(u) THEN [sign |-> "NoSign", bytes |-> <<0>>]
    ELSE [sign |-> "Plus", bytes |-> BigUintBytes(u)]

NoCall == [fn |-> "none", arg |-> 0]

NoEvent == [op |-> "none", n |-> 0, depth |-> 0, pos |-> 0, empty |-> 0, e |-> "None"]

\* No entry constructor is running.
EncoderIdle ==
    /\ mode = "none"
    /\ long = FALSE
    /\ status = "idle"
    /\ buf = <<>>
    /\ stack = <<>>
    /\ held = FALSE
    /\ ret = "None"
    /\ result = [ok |-> FALSE, err |-> "None", bytes |-> <<>>]
    /\ nnext = 0
    /\ vals = <<>>
    /\ failure = "None"
    /\ forwarded = TRUE
    /\ ev = NoEvent

InitCodec == call = NoCall /\ out = <<>> /\ EncoderIdle

CallWriteLength ==
    \E length \in U64Inputs :
        /\ call = NoCall
        /\ call' = [fn |-> "write_length", arg |-> length]
        /\ out' = WriteLength(<<>>, length)
        /\ UNCHANGED encVars

CallWriteIdentifier ==
    \E c \in 0..3, pc \in {Primitive, Constructed}, n \in U64Inputs :
        /\ call = NoCall
        /\ call' = [fn |-> "write_identifier", arg |-> n, tag_class |-> c, pc |-> pc]
        /\ out' = WriteIdentifier(<<>>, Tag(c, n), pc)
        /\ UNCHANGED encVars

CallWriteI64 ==
    \E val \in I64Inputs :
        /\ call = NoCall
        /\ call' = [fn |-> "write_i64", arg |-> val]
        /\ out' = WriteI64(<<>>, val)
        /\ UNCHANGED encVars

CallWriteU64 ==
    \E val \in U64Inputs :
        /\ call = NoCall
        /\ call' = [fn |-> "write_u64", arg |-> val]
        /\ out' = WriteU64(<<>>, val)
        /\ UNCHANGED encVars

\* write_i8, write_i16, write_i32 on the w low bits of an input.
CallWriteINarrow ==
    \E w \in {8, 16, 32}, x \in I64Inputs :
        LET val == Trunc(x, w)
        IN  /\ call = NoCall
            /\ call' = [fn |-> "write_i", arg |-> val, width |-> w]
            /\ out' = CASE w = 8 -> WriteI8(<<>>, val)
                        [] w = 16 -> WriteI16(<<>>, val)
                        [] w = 32 -> WriteI32(<<>>, val)
            /\ UNCHANGED encVars

\* write_u8, write_u16, write_u32 on the w low bits of an input.
CallWriteUNarrow ==
    \E w \in {8, 16, 32}, x \in I64Inputs :
        LET val == Trunc(x, w)
        IN  /\ call = NoCall
            /\ call' = [fn |-> "write_u", arg |-> val, width |-> w]
            /\ out' = CASE w = 8 -> WriteU8(<<>>, val)
                        [] w = 16 -> WriteU16(<<>>, val)
                        [] w = 32 -> WriteU32(<<>>, val)
            /\ UNCHANGED encVars

\* write_bigint(&BigInt::from(v)) for a signed v.
CallWriteBigintI64 ==
    \E v \in I64Inputs :
        /\ call = NoCall
        /\ call' = [fn |-> "write_bigint_i64", arg |-> v, big |-> BigIntOfI64(v)]
        /\ out' = WriteBigint(<<>>, BigIntOfI64(v))
        /\ UNCHANGED encVars

\* write_bigint(&BigInt::from(u)) for an unsigned u.
CallWriteBigintU64 ==
    \E u \in U64Inputs :
        /\ call = NoCall
        /\ call' = [fn |-> "write_bigint_u64", arg |-> u, big |-> BigIntOfU64(u)]
        /\ out' = WriteBigint(<<>>, BigIntOfU64(u))
        /\ UNCHANGED encVars

\* write_biguint(&BigUint::from(u)).
CallWriteBiguint ==
    \E u \in U64Inputs :
        /\ call = NoCall
        /\ call' = [fn |-> "write_biguint", arg |-> u, big |-> BigUintBytes(u)]
        /\ out' = WriteBiguint(<<>>, BigUintBytes(u))
        /\ UNCHANGED encVars

NextCodec ==
    \/ CallWriteLength
    \/ CallWriteIdentifier
    \/ CallWriteI64
    \/ CallWriteU64
    \/ CallWriteINarrow
    \/ CallWriteUNarrow
    \/ CallWriteBigintI64
    \/ CallWriteBigintU64
    \/ CallWriteBiguint

SpecCodec == InitCodec /\ [][NextCodec]_vars

(***************************************************************************)
(* with_length: the deferred-length frame of write_sequence.               *)
(***************************************************************************)
ExpectedLengthLength == 3
Placeholder == 255

\* for _ in 0..3 { self.buf.push(255) }; start_pos is the length after it.
ReservePlaceholder(b) == b \o [i \in 1..ExpectedLengthLength |-> Placeholder]

\* A drain of as many bytes, taken from the content behind the placeholder.
DrainBehind(b, from, to) == SubSeq(b, 1, to) \o SubSeq(b, to + (to - from) + 1, Len(b))

\* self.buf.drain(from .. to), positions counted from 0.
Drain(b, from, to) == SubSeq(b, 1, from) \o SubSeq(b, to + 1, Len(b))

\* for _ in 0..diff { self.buf.insert(pos, 0) }
InsertZeros(b, pos, diff) ==
    SubSeq(b, 1, pos) \o [i \in 1..diff |-> 0] \o SubSeq(b, pos + 1, Len(b))

\* self.buf[idx] = v, idx counted from 0.
Put(b, idx, v) == [b EXCEPT ![idx + 1] = v]

RECURSIVE PatchLength(_, _, _, _)
\* loop { b[idx] = (length >> shiftnum) as u8; idx += 1;
\*        if shiftnum == 0 { break } shiftnum -= 8 }
PatchLength(b, idx, length, shiftnum) ==
    LET b1 == Put(b, idx, AsU8(Shr(length, shiftnum)))
    IN  IF shiftnum = 0 THEN b1 ELSE PatchLength(b1, idx + 1, length, shiftnum - 8)

\* length_length without the byte that holds 0x80 | N.
LengthLengthWithoutLead(length, shiftnum) ==
    IF LtLit(length, 128) THEN 1 ELSE (shiftnum \div 8) + 1

\* length_length, from the content length and the shift of its first byte.
LengthLength(length, shiftnum) ==
    IF LtLit(length, 128) THEN 1 ELSE (shiftnum \div 8) + 2

\* with_length after its callback returned Ok: the buffer with the
\* placeholder before start_pos resized and overwritten by the length.
WithLengthPatch(b, start_pos) ==
    LET length == U64(Len(b) - start_pos)
        shiftnum == IF LtLit(length, 128) THEN 56 ELSE SkipZeroBytes(length, 56)
        length_length == LengthLength(length, shiftnum)
        new_start_pos ==
            IF length_length < ExpectedLengthLength
            THEN start_pos - (ExpectedLengthLength - length_length)
            ELSE IF length_length > ExpectedLengthLength
            THEN start_pos + (length_length - ExpectedLengthLength)
            ELSE start_pos
        b1 == IF length_length < ExpectedLengthLength
              THEN Drain(b, new_start_pos, start_pos)
              ELSE IF length_length > ExpectedLengthLength
              THEN InsertZeros(b, start_pos, length_length - ExpectedLengthLength)
              ELSE b
        idx == new_start_pos - length_length
    IN  IF LtLit(length, 128)
        THEN Put(b1, idx, AsU8(length))
        ELSE PatchLength(Put(b1, idx, Or8(128, (shiftnum \div 8) + 1)), idx + 1,
                         length, shiftnum)

(***************************************************************************)
(* write_set: the check, the sort and the emission that follow a callback  *)
(* that returned Ok.                                                       *)
(***************************************************************************)
RECURSIVE And8From(_, _, _)
And8From(a, b, k) ==
    IF k = 8 THEN 0
    ELSE (IF (a \div Pow2(k)) % 2 = 1 /\ (b \div Pow2(k)) % 2 = 1 THEN Pow2(k) ELSE 0)
         + And8From(a, b, k + 1)

\* a & b on bytes.
And8(a, b) == And8From(a, b, 0)

\* Ord::cmp on integers.
CmpInt(a, b) == IF a < b THEN "Less" ELSE IF a > b THEN "Greater" ELSE "Equal"

RECURSIVE CmpBytes(_, _)
\* Ord::cmp on byte slices: lexicographic, a proper prefix first.
CmpBytes(a, b) ==
    IF a = <<>> THEN (IF b = <<>> THEN "Equal" ELSE "Less")
    ELSE IF b = <<>> THEN "Greater"
    ELSE IF Head(a) # Head(b) THEN CmpInt(Head(a), Head(b))
    ELSE CmpBytes(Tail(a), Tail(b))

\* s.iter().position(|x| x & 128 == 0).unwrap(), counted from 0; the writer
\* ends every tag number with such a byte.
PositionOfLast(s) ==
    CHOOSE k \in 0..(Len(s) - 1) :
        /\ And8(s[k + 1], 128) = 0
        /\ \A j \in 0..(k - 1) : And8(s[j + 1], 128) # 0

\* A closure comparing the members as whole byte strings.
SetCmpWholeBytes(buf0, buf1) == CmpBytes(buf0, buf1)

\* The closure given to sort_by.
SetCmp(buf0, buf1) ==
    LET buf00 == And8(buf0[1], 223)
        buf10 == And8(buf1[1], 223)
    IN  IF buf00 # buf10 \/ And8(buf0[1], 31) # 31
        THEN CmpInt(buf00, buf10)
        ELSE LET len0 == PositionOfLast(Tail(buf0))
                 len1 == PositionOfLast(Tail(buf1))
             IN  IF len0 # len1 THEN CmpInt(len0, len1)
                 ELSE CmpBytes(Tail(buf0), Tail(buf1))

RECURSIVE InsertSorted(_, _)
\* x put into the sorted s behind every element that is not greater.
InsertSorted(s, x) ==
    IF s = <<>> THEN <<x>>
    ELSE IF SetCmp(s[Len(s)], x) = "Greater"
         THEN Append(InsertSorted(SubSeq(s, 1, Len(s) - 1), x), s[Len(s)])
         ELSE Append(s, x)

RECURSIVE SortBy(_)
\* bufs.sort_by(SetCmp): a stable sort.
SortBy(bufs) ==
    IF bufs = <<>> THEN <<>>
    ELSE InsertSorted(SortBy(SubSeq(bufs, 1, Len(bufs) - 1)), bufs[Len(bufs)])

RECURSIVE SumLen(_)
\* bufs.iter().map(|b| b.len()).fold(0, |x, y| x + y)
SumLen(bufs) == IF bufs = <<>> THEN 0 ELSE Len(Head(bufs)) + SumLen(Tail(bufs))

RECURSIVE ExtendAll(_, _)
\* for buf in bufs.iter() { self.buf.extend_from_slice(buf) }
ExtendAll(b, bufs) == IF bufs = <<>> THEN b ELSE ExtendAll(b \o Head(bufs), Tail(bufs))

\* The assertion compiled out.
SetAssertOff(bufs) == FALSE

\* assert!(buf.len() > 0) fails for some member.
SetAssertFails(bufs) == \E i \in 1..Len(bufs) : Len(bufs[i]) = 0

\* The parent buffer b after write_set sorted and emitted the members bufs.
WriteSetEmit(b, bufs) ==
    LET sorted == SortBy(bufs)
        bufs_len == SumLen(sorted)
        b1 == WriteIdentifier(b, TAG_SET, Constructed)
        b2 == WriteLength(b1, U64(bufs_len))
    IN  ExtendAll(b2, sorted)

(***************************************************************************)
(* Reading encodings back, for the statements about the codecs.            *)
(***************************************************************************)
\* Bit i (weight 2^i) of the big-endian byte string bytes; fill beyond it.
BEBit(bytes, i, fill) ==
    LET k == Len(bytes) - (i \div 8)
    IN  IF k >= 1 THEN (bytes[k] \div Pow2(i % 8)) % 2 ELSE fill

\* The 72 low bits of the unsigned number a big-endian byte string denotes.
UnsignedOf(bytes) == [i \in 0..71 |-> BEBit(bytes, i, 0)]

\* The 72 low bits of the two's-complement number a non-empty big-endian
\* byte string denotes.
SignedOf(bytes) == [i \in 0..71 |-> BEBit(bytes, i, bytes[1] \div 128)]

\* A value of w bits widened to 72 bits, as a signed and as an unsigned number.
WideSigned(x, w) == [i \in 0..71 |-> IF i < w THEN x[i] ELSE x[w - 1]]
WideUnsigned(x, w) == [i \in 0..71 |-> IF i < w THEN x[i] ELSE 0]

\* Bit i of the number the base-128 groups denote (7 bits a group, the most
\* significant group first).
GroupBit(groups, i) ==
    LET k == Len(groups) - (i \div 7)
    IN  IF k >= 1 THEN ((groups[k] % 128) \div Pow2(i % 7)) % 2 ELSE 0

Base128Of(groups) == [i \in 0..76 |-> GroupBit(groups, i)]

\* The smallest number of bytes that hold the unsigned x (at least one).
MinBytes(x) == CHOOSE n \in 1..8 :
    /\ \A i \in Bits : i >= 8 * n => x[i] = 0
    /\ \A m \in 1..(n - 1) : \E i \in Bits : i >= 8 * m /\ x[i] = 1

\* A content of INTEGER with no leading byte of pure sign extension.
ShortestInteger(content) ==
    /\ Len(content) >= 1
    /\ Len(content) >= 2 =>
          /\ ~(content[1] = 0 /\ content[2] < 128)
          /\ ~(content[1] = 255 /\ content[2] >= 128)

IsBytes(s) == \A i \in 1..Len(s) : s[i] \in 0..255

\* C5: write_length emits the minimal definite-form length octets of L: the
\* single byte L below 128, else 0x80 | N and the N big-endian bytes of L
\* with N the smallest byte count holding L (so the first of them is
\* non-zero); never the lone byte 0x80; and the octets decode to L.
LengthOctetsMinimal ==
    call.fn = "write_length" =>
        LET L == call.arg
        IN  /\ IsBytes(out)
            /\ out # <<128>>
            /\ IF LtLit(L, 128)
               THEN out = <<LowBits(L, 7)>>
               ELSE LET N == Len(out) - 1
                        tail == SubSeq(out, 2, Len(out))
                    IN  /\ N = MinBytes(L)
                        /\ out[1] = 128 + N
                        /\ tail[1] # 0
                        /\ UnsignedOf(tail) = WideUnsigned(L, 64)

\* C5 witness: a length of eight bytes (2^64 - 1) and one on the 127/128
\* threshold have been written.
LengthWitness ==
    /\ call.fn = "write_length"
    /\ call.arg = Ones(64)
    /\ out = <<136, 255, 255, 255, 255, 255, 255, 255, 255>>

\* C6: write_identifier emits class<<6 | flag<<5 | N in one byte when N < 31,
\* else class<<6 | flag<<5 | 31 and N in base-128 groups, most significant
\* first, bit 0x80 set on all but the last, the first group non-zero; the
\* groups decode to N, over the whole unsigned 64-bit range.
IdentifierOctetsRoundTrip ==
    call.fn = "write_identifier" =>
        LET N == call.arg
            lead == call.tag_class * 64 + call.pc * 32
        IN  /\ IsBytes(out)
            /\ IF LtLit(N, 31)
               THEN out = <<lead + LowBits(N, 5)>>
               ELSE LET groups == SubSeq(out, 2, Len(out))
                    IN  /\ out[1] = lead + 31
                        /\ Len(groups) >= 1
                        /\ \A k \in 1..(Len(groups) - 1) : groups[k] >= 128
                        /\ groups[Len(groups)] < 128
                        /\ groups[1] % 128 # 0
                        /\ Base128Of(groups) = [i \in 0..76 |-> IF i \in Bits THEN N[i] ELSE 0]

\* C6 witness: the tag number 2^64 - 1 was written in ten groups.
IdentifierWitness ==
    /\ call.fn = "write_identifier"
    /\ call.arg = Ones(64)
    /\ Len(out) = 11
    /\ out[2] = 129

\* The number the call of an integer writer was given, 72 bits wide.
IntegerArgument ==
    CASE call.fn = "write_i64" -> WideSigned(call.arg, 64)
      [] call.fn = "write_u64" -> WideUnsigned(call.arg, 64)
      [] call.fn = "write_i" -> WideSigned(call.arg, call.width)
      [] call.fn = "write_u" -> WideUnsigned(call.arg, call.width)

\* C7: every fixed-width integer writer emits 0x02, the length, and the
\* shortest big-endian two's complement of its argument (for an unsigned
\* argument: of the same non-negative number, so 9 bytes from 2^63 on);
\* write_u64 agrees with write_i64 below 2^63 and the narrow unsigned
\* writers agree with write_u64 on the widened value.
IntegerShortestTwosComplement ==
    call.fn \in {"write_i64", "write_u64", "write_i", "write_u"} =>
        LET content == SubSeq(out, 3, Len(out))
        IN  /\ IsBytes(out)
            /\ Len(out) >= 3
            /\ out[1] = 2
            /\ out[2] = Len(content)
            /\ ShortestInteger(content)
            /\ SignedOf(content) = IntegerArgument
            /\ (call.fn = "write_u64" /\ call.arg[63] = 1) => (Len(content) = 9 /\ content[1] = 0)
            /\ (call.fn = "write_u64" /\ call.arg[63] = 0) => out = WriteI64(<<>>, call.arg)
            /\ call.fn = "write_u" => out = WriteU64(<<>>, ZeroExtend(call.arg, call.width))

\* C7 witness: write_u64(2^64 - 1) gave nine content bytes.
IntegerWitness ==
    /\ call.fn = "write_u64"
    /\ call.arg = Ones(64)
    /\ out = <<2, 9, 0, 255, 255, 255, 255, 255, 255, 255, 255>>

\* C8: write_bigint on BigInt::from(v) emits what write_i64(v) emits,
\* write_bigint on BigInt::from(u) and write_biguint on BigUint::from(u) what
\* write_u64(u) emits.
BigintAgreesWithFixedWidth ==
    /\ call.fn = "write_bigint_i64" => out = WriteI64(<<>>, call.arg)
    /\ call.fn = "write_bigint_u64" => out = WriteU64(<<>>, call.arg)
    /\ call.fn = "write_biguint" => out = WriteU64(<<>>, call.arg)

\* C8 witness: write_bigint(-256), whose two's complement carries into the
\* second byte.
BigintWitness ==
    /\ call.fn = "write_bigint_i64"
    /\ call.arg = Not(U64(255))
    /\ call.big = [sign |-> "Minus", bytes |-> <<0, 1>>]
    /\ out = <<2, 2, 255, 0>>

(***************************************************************************)
(* The entry constructors with the caller's callbacks as the environment:  *)
(* a callback takes writers from its composer, writes values through them, *)
(* opens nested SEQUENCEs and SETs, and returns Ok or a failure.  A write  *)
(* lands in the buffer the writer is bound to: the last member buffer of   *)
(* the innermost open write_set, else the constructor's buffer.            *)
(***************************************************************************)
Errors == {"E1", "E2"}

\* The lengths of the byte strings written: they take the content of an
\* enclosing SEQUENCE to 127, 128, 255 and 256 bytes, and the long ones to
\* 65535 and 65536 bytes.
ShortLens == {125, 126, 252, 253}
LongLens == {65531, 65532}
PayloadLens == ShortLens \cup LongLens

\* The byte strings written, by length: 0xFF first, then counting up.
Payload == [n \in PayloadLens |-> [i \in 1..n |-> (254 + i) % 256]]

\* The integers written.
IntValues == {10}

Frame(kind, start_pos) == [kind |-> kind, start_pos |-> start_pos, bufs |-> <<>>, vals |-> <<>>]

Value(t, n, items) == [t |-> t, n |-> n, items |-> items]

\* A step: the operation, a size n (bytes written, content length, members),
\* the nesting depth, a position in the buffer, the empty member buffers a
\* write_set found, and the failure returned.
Event(op, n, depth, pos, empty, e) ==
    [op |-> op, n |-> n, depth |-> depth, pos |-> pos, empty |-> empty, e |-> e]

RECURSIVE EmptyCount(_)
EmptyCount(bufs) ==
    IF bufs = <<>> THEN 0
    ELSE (IF Len(Head(bufs)) = 0 THEN 1 ELSE 0) + EmptyCount(Tail(bufs))

Top(stk) == stk[Len(stk)]

\* The outermost frame taken off instead of the innermost.
PopOutermost(stk) == Tail(stk)

Pop(stk) == SubSeq(stk, 1, Len(stk) - 1)

\* The innermost open write_set, 0 when there is none.
SetIdx(stk) ==
    IF \E j \in 1..Len(stk) : stk[j].kind = "set"
    THEN CHOOSE j \in 1..Len(stk) :
            stk[j].kind = "set" /\ \A k \in (j + 1)..Len(stk) : stk[k].kind # "set"
    ELSE 0

\* The buffer a writer of the running callback is bound to.
TargetOf(b, stk) ==
    IF SetIdx(stk) = 0 THEN b ELSE stk[SetIdx(stk)].bufs[Len(stk[SetIdx(stk)].bufs)]

\* The constructor's buffer and the stack once that buffer became nb.
BufWith(b, stk, nb) == IF SetIdx(stk) = 0 THEN nb ELSE b
StackWith(stk, nb) ==
    IF SetIdx(stk) = 0 THEN stk
    ELSE [stk EXCEPT ![SetIdx(stk)].bufs = [@ EXCEPT ![Len(@)] = nb]]

\* The history of values once v was completed in the running callback.
StackNoting(stk, v) ==
    IF stk = <<>> THEN stk ELSE [stk EXCEPT ![Len(stk)].vals = Append(@, v)]
ValsNoting(stk, v) == IF stk = <<>> THEN Append(vals, v) ELSE vals

RECURSIVE MemberBytes(_)
MemberBytes(stk) == IF stk = <<>> THEN 0 ELSE SumLen(Head(stk).bufs) + MemberBytes(Tail(stk))

\* The bytes all buffers of the run hold.
TotalBytes == Len(buf) + MemberBytes(stack)

\* The runs that write a long byte string are explored for callbacks that
\* nest SEQUENCEs, write BOOLEANs and long strings and return Ok; all other
\* runs write the short strings and are explored in full.
Short == ~long

\* A try! that replaces the failure by one of its own.
TryReturnOwn(e) == "E1"

\* try!(callback(..)) on a callback that returned the failure e: the
\* enclosing function returns Err(From::from(e)), the same io::Error.
TryReturn(e) == e

\* What construct_der / construct_der_seq return for the callback's r and
\* the buffer b.
ConstructResult(r, b) ==
    IF r = "Ok" THEN [ok |-> TRUE, err |-> "None", bytes |-> b]
    ELSE [ok |-> FALSE, err |-> TryReturn(r), bytes |-> <<>>]

Init ==
    /\ call = NoCall
    /\ out = <<>>
    /\ mode \in {"der", "der_seq"}
    /\ long \in BOOLEAN
    /\ status = "running"
    /\ buf = <<>>
    /\ stack = <<>>
    /\ held = (mode = "der")
    /\ ret = "None"
    /\ result = [ok |-> FALSE, err |-> "None", bytes |-> <<>>]
    /\ nnext = 0
    /\ vals = <<>>
    /\ failure = "None"
    /\ forwarded = TRUE
    /\ ev = NoEvent

\* The running callback goes on after a nested call returned ret to it.
GoesOn ==
    /\ forwarded' = (forwarded /\ ret \notin Errors)
    /\ UNCHANGED <<call, out, mode, long, status, result, failure>>

\* A scalar writer ran on the held writer and left the buffer nb; v is the
\* value it wrote.
Wrote(nb, v, op) ==
    /\ TotalBytes + (Len(nb) - Len(TargetOf(buf, stack))) <= MaxBytes
    /\ buf' = BufWith(buf, stack, nb)
    /\ stack' = StackNoting(StackWith(stack, nb), v)
    /\ vals' = ValsNoting(stack, v)
    /\ held' = FALSE
    /\ ret' = "Ok"
    /\ ev' = Event(op, Len(nb) - Len(TargetOf(buf, stack)), Len(stack),
                   Len(TargetOf(buf, stack)), 0, "None")
    /\ UNCHANGED nnext
    /\ GoesOn

\* DERWriterSeq::next
SeqNext ==
    /\ status = "running"
    /\ IF stack = <<>> THEN mode = "der_seq" ELSE Top(stack).kind = "seq"
    /\ ~held
    /\ nnext < MaxWriters
    /\ held' = TRUE
    /\ nnext' = nnext + 1
    /\ ret' = "None"
    /\ ev' = Event("next", 0, Len(stack), 0, 0, "None")
    /\ UNCHANGED <<buf, stack, vals>>
    /\ GoesOn

\* DERWriterSet::next
SetNext ==
    /\ Short
    /\ status = "running"
    /\ stack # <<>>
    /\ Top(stack).kind = "set"
    /\ nnext < MaxWriters
    /\ stack' = [stack EXCEPT ![Len(stack)].bufs = Append(@, <<>>)]
    /\ held' = TRUE
    /\ nnext' = nnext + 1
    /\ ret' = "None"
    /\ ev' = Event("next", 0, Len(stack), 0, 0, "None")
    /\ UNCHANGED <<buf, vals>>
    /\ GoesOn

DoWriteBool ==
    \E val \in BOOLEAN :
        /\ status = "running"
        /\ held
        /\ Wrote(WriteBool(TargetOf(buf, stack), val),
                 Value("bool", IF val THEN 1 ELSE 0, <<>>), "write_bool")

DoWriteI64 ==
    \E n \in IntValues :
        /\ Short
        /\ status = "running"
        /\ held
        /\ Wrote(WriteI64(TargetOf(buf, stack), U64(n)), Value("i64", n, <<>>), "write_i64")

DoWriteBytes ==
    \E n \in IF long THEN LongLens ELSE ShortLens :
        /\ status = "running"
        /\ held
        /\ TotalBytes + n <= MaxBytes
        /\ Wrote(WriteBytes(TargetOf(buf, stack), Payload[n]), Value("bytes", n, <<>>), "write_bytes")

DoWriteNull ==
    /\ Short
    /\ status = "running"
    /\ held
    /\ Wrote(WriteNull(TargetOf(buf, stack)), Value("null", 0, <<>>), "write_null")

\* write_sequence up to the call of its callback: the identifier, and
\* with_length up to its callback.
WriteSequenceOpen ==
    /\ status = "running"
    /\ held
    /\ TotalBytes + 1 + ExpectedLengthLength <= MaxBytes
    /\ LET nb == ReservePlaceholder(WriteIdentifier(TargetOf(buf, stack), TAG_SEQUENCE, Constructed))
           start_pos == Len(nb)
       IN  /\ buf' = BufWith(buf, stack, nb)
           /\ stack' = Append(StackWith(stack, nb), Frame("seq", start_pos))
           /\ ev' = Event("seq_open", 0, Len(stack), start_pos, 0, "None")
    /\ held' = FALSE
    /\ ret' = "None"
    /\ UNCHANGED <<nnext, vals>>
    /\ GoesOn

\* write_sequence once its callback returned Ok: with_length patches the
\* length and returns Ok.
WriteSequenceOk ==
    /\ status = "running"
    /\ stack # <<>>
    /\ Top(stack).kind = "seq"
    /\ LET start_pos == Top(stack).start_pos
           b == TargetOf(buf, stack)
           nb == WithLengthPatch(b, start_pos)
           v == Value("seq", 0, Top(stack).vals)
       IN  /\ buf' = BufWith(buf, Pop(stack), nb)
           /\ stack' = StackNoting(StackWith(Pop(stack), nb), v)
           /\ vals' = ValsNoting(Pop(stack), v)
           /\ ev' = Event("seq_ok", Len(b) - start_pos, Len(stack),
                          start_pos - ExpectedLengthLength - 1, 0, "None")
    /\ held' = FALSE
    /\ ret' = "Ok"
    /\ UNCHANGED nnext
    /\ GoesOn

\* write_sequence once its callback returned the failure e: try! returns it
\* from with_length, and write_sequence returns that.
WriteSequenceErr ==
    \E e \in Errors :
        /\ Short
        /\ status = "running"
        /\ stack # <<>>
        /\ Top(stack).kind = "seq"
        /\ stack' = Pop(stack)
        /\ held' = FALSE
        /\ ret' = TryReturn(e)
        /\ failure' = (IF failure = "None" THEN e ELSE failure)
        /\ forwarded' = (forwarded /\ (ret \in Errors => e = ret))
        /\ ev' = Event("seq_err", 0, Len(stack), Top(stack).start_pos, 0, e)
        /\ UNCHANGED <<call, out, mode, long, status, buf, result, nnext, vals>>

\* write_set up to the call of its callback.
WriteSetOpen ==
    /\ Short
    /\ status = "running"
    /\ held
    /\ stack' = Append(stack, Frame("set", 0))
    /\ held' = FALSE
    /\ ret' = "None"
    /\ ev' = Event("set_open", 0, Len(stack), 0, 0, "None")
    /\ UNCHANGED <<buf, nnext, vals>>
    /\ GoesOn

\* write_set once its callback returned Ok and every member holds a value.
WriteSetOk ==
    /\ Short
    /\ status = "running"
    /\ stack # <<>>
    /\ Top(stack).kind = "set"
    /\ ~SetAssertFails(Top(stack).bufs)
    /\ LET b == TargetOf(buf, Pop(stack))
           nb == WriteSetEmit(b, Top(stack).bufs)
           v == Value("set", 0, Top(stack).vals)
       IN  /\ buf' = BufWith(buf, Pop(stack), nb)
           /\ stack' = StackNoting(StackWith(Pop(stack), nb), v)
           /\ vals' = ValsNoting(Pop(stack), v)
           /\ ev' = Event("set_ok", Len(nb) - Len(b), Len(stack), Len(b),
                          EmptyCount(Top(stack).bufs), "None")
    /\ held' = FALSE
    /\ ret' = "Ok"
    /\ UNCHANGED nnext
    /\ GoesOn

\* write_set once its callback returned Ok and left a member empty: the
\* assertion fails and the panic unwinds the whole run.
WriteSetPanic ==
    /\ Short
    /\ status = "running"
    /\ stack # <<>>
    /\ Top(stack).kind = "set"
    /\ SetAssertFails(Top(stack).bufs)
    /\ status' = "panicked"
    /\ buf' = <<>>
    /\ stack' = <<>>
    /\ held' = FALSE
    /\ ret' = "None"
    /\ forwarded' = (forwarded /\ ret \notin Errors)
    /\ ev' = Event("set_panic", Len(Top(stack).bufs), Len(stack), 0, EmptyCount(Top(stack).bufs), "None")
    /\ UNCHANGED <<call, out, mode, long, result, nnext, vals, failure>>

\* write_set once its callback returned the failure e: try! returns it.
WriteSetErr ==
    \E e \in Errors :
        /\ Short
        /\ status = "running"
        /\ stack # <<>>
        /\ Top(stack).kind = "set"
        /\ stack' = Pop(stack)
        /\ held' = FALSE
        /\ ret' = TryReturn(e)
        /\ failure' = (IF failure = "None" THEN e ELSE failure)
        /\ forwarded' = (forwarded /\ (ret \in Errors => e = ret))
        /\ ev' = Event("set_err", Len(Top(stack).bufs), Len(stack), 0, EmptyCount(Top(stack).bufs), e)
        /\ UNCHANGED <<call, out, mode, long, status, buf, result, nnext, vals>>

\* construct_der / construct_der_seq once the callback returned Ok.
ConstructOk ==
    /\ status = "running"
    /\ stack = <<>>
    /\ status' = "done"
    /\ result' = ConstructResult("Ok", buf)
    /\ held' = FALSE
    /\ ret' = "None"
    /\ forwarded' = (forwarded /\ ret \notin Errors)
    /\ ev' = Event("construct_ok", Len(buf), 0, 0, 0, "None")
    /\ UNCHANGED <<call, out, mode, long, buf, stack, nnext, vals, failure>>

\* construct_der / construct_der_seq once the callback returned the failure
\* e: try! returns it and the buffer is dropped.
ConstructErr ==
    \E e \in Errors :
        /\ Short
        /\ status = "running"
        /\ stack = <<>>
        /\ status' = "done"
        /\ result' = ConstructResult(e, buf)
        /\ buf' = <<>>
        /\ held' = FALSE
        /\ ret' = "None"
        /\ failure' = (IF failure = "None" THEN e ELSE failure)
        /\ forwarded' = (forwarded /\ (ret \in Errors => e = ret))
        /\ ev' = Event("construct_err", 0, 0, 0, 0, e)
        /\ UNCHANGED <<call, out, mode, long, stack, nnext, vals>>

Next ==
    \/ SeqNext
    \/ SetNext
    \/ DoWriteBool
    \/ DoWriteI64
    \/ DoWriteBytes
    \/ DoWriteNull
    \/ WriteSequenceOpen
    \/ WriteSequenceOk
    \/ WriteSequenceErr
    \/ WriteSetOpen
    \/ WriteSetOk
    \/ WriteSetPanic
    \/ WriteSetErr
    \/ ConstructOk
    \/ ConstructErr

Spec == Init /\ [][Next]_vars

(***************************************************************************)
(* Statements about the entry constructors and the frames.                 *)
(***************************************************************************)
RECURSIVE Enc(_), EncAll(_), EncEach(_)
\* The DER encoding of a value of the history: identifier, definite length,
\* content; a SEQUENCE holds its items in order, a SET in sorted order.
Enc(v) ==
    CASE v.t = "bool" -> <<1, 1, IF v.n = 1 THEN 255 ELSE 0>>
      [] v.t = "i64" -> WriteI64(<<>>, U64(v.n))
      [] v.t = "bytes" -> <<4>> \o WriteLength(<<>>, U64(v.n)) \o Payload[v.n]
      [] v.t = "null" -> <<5, 0>>
      [] v.t = "seq" -> LET c == EncAll(v.items)
                        IN  <<48>> \o WriteLength(<<>>, U64(Len(c))) \o c
      [] v.t = "set" -> LET c == ExtendAll(<<>>, SortBy(EncEach(v.items)))
                        IN  <<49>> \o WriteLength(<<>>, U64(Len(c))) \o c
EncAll(vs) == IF vs = <<>> THEN <<>> ELSE Enc(Head(vs)) \o EncAll(Tail(vs))
EncEach(vs) == IF vs = <<>> THEN <<>> ELSE <<Enc(Head(vs))>> \o EncEach(Tail(vs))

\* The running callback writes through a DERWriterSeq (or, in construct_der,
\* through the one writer it was given).
InSequenceComposer == stack = <<>> \/ Top(stack).kind = "seq"

\* The bytes the running callback's writers have appended so far.
Appended ==
    IF stack = <<>> THEN buf
    ELSE SubSeq(TargetOf(buf, stack), Top(stack).start_pos + 1, Len(TargetOf(buf, stack)))

\* The values the running callback has written so far.
Written == IF stack = <<>> THEN vals ELSE Top(stack).vals

SequenceLengthFieldExact ==
    ev.op = "seq_ok" =>
        LET b == TargetOf(buf, stack)
            L == ev.n
            octets == WriteLength(<<>>, U64(L))
        IN  /\ Len(b) = ev.pos + 1 + Len(octets) + L
            /\ b[ev.pos + 1] = 48
            /\ SubSeq(b, ev.pos + 2, ev.pos + 1 + Len(octets)) = octets
            /\ failure = "None" =>
                  SubSeq(b, ev.pos + 2 + Len(octets), Len(b))
                      = EncAll(Written[Len(Written)].items)

\* C1 witness: the outer of two nested SEQUENCEs closed over 65541 content
\* bytes, the inner one having grown by a byte when it was patched.
SequenceLengthWitness ==
    /\ ev.op = "seq_ok"
    /\ ev.depth = 1
    /\ ev.n = 65541
    /\ SubSeq(buf, 1, 10) = <<48, 131, 1, 0, 5, 48, 131, 1, 0, 0>>

RECURSIVE Base256Digits(_)
Base256Digits(n) == IF n < 256 THEN 1 ELSE 1 + Base256Digits(n \div 256)

\* The width of the minimal length field of n content bytes.
MinimalWidth(n) == IF n < 128 THEN 1 ELSE 1 + Base256Digits(n)

\* The step is the patch of the innermost open frame.
IsPatchStep ==
    /\ status = "running"
    /\ stack # <<>>
    /\ Top(stack).kind = "seq"
    /\ ev'.op = "seq_ok"
    /\ Len(stack') = Len(stack) - 1

\* C10: the patch of a frame leaves every byte before the placeholder as it
\* was, and the content bytes as they were, moved left by 2 for a content
\* below 128 bytes, left by 1 for 128..255, not at all for 256..65535, and
\* right by (minimal width - 3) from 65536 on; no other buffer changes.
PatchStepEffect ==
    IsPatchStep =>
        LET b == TargetOf(buf, stack)
            nb == TargetOf(buf', stack')
            s == Top(stack).start_pos
            L == Len(b) - s
            shift == IF L < 128 THEN 0 - 2
                     ELSE IF L < 256 THEN 0 - 1
                     ELSE IF L < 65536 THEN 0
                     ELSE MinimalWidth(L) - ExpectedLengthLength
        IN  /\ SubSeq(nb, 1, s - ExpectedLengthLength) = SubSeq(b, 1, s - ExpectedLengthLength)
            /\ Len(nb) = Len(b) + shift
            /\ SubSeq(nb, s + shift + 1, Len(nb)) = SubSeq(b, s + 1, Len(b))
            /\ SetIdx(stack) # 0 => buf' = buf
            /\ \A j \in 1..Len(stack') :
                  /\ stack'[j].start_pos = stack[j].start_pos
                  /\ Len(stack'[j].bufs) = Len(stack[j].bufs)
                  /\ \A m \in 1..Len(stack[j].bufs) :
                        (j # SetIdx(stack) \/ m # Len(stack[j].bufs))
                            => stack'[j].bufs[m] = stack[j].bufs[m]

PatchTouchesOnlyPlaceholder == [][PatchStepEffect]_vars

\* C10 witness: a nested frame behind other bytes was patched over at least
\* 65536 content bytes, which moved right.
PatchWitness ==
    /\ ev.op = "seq_ok"
    /\ ev.n >= 65536
    /\ ev.depth >= 2
    /\ ev.pos >= 4

\* C2 as stated: once any callback has failed, the entry constructor returns
\* a failure and no bytes.
EveryFailureReachesCaller ==
    (status = "done" /\ failure # "None") => (~result.ok /\ result.bytes = <<>>)

\* C2 amended: the call a callback failed in returns that failure as it is
\* (write_sequence with its placeholder still in the buffer, the constructor
\* without bytes); when every callback handed a failure returns it at once,
\* the constructor returns the first failure and no bytes; and the
\* constructor returns Ok exactly when its own callback did.
FailureForwardedReachesCaller ==
    /\ ev.op \in {"seq_err", "set_err"} => ret = ev.e
    /\ ev.op = "seq_err" =>
          SubSeq(TargetOf(buf, stack), ev.pos - 3, ev.pos) = <<48, 255, 255, 255>>
    /\ ev.op = "construct_err" => result = [ok |-> FALSE, err |-> ev.e, bytes |-> <<>>]
    /\ ev.op = "construct_ok" => result = [ok |-> TRUE, err |-> "None", bytes |-> buf]
    /\ (status = "done" /\ failure # "None" /\ forwarded) =>
          result = [ok |-> FALSE, err |-> failure, bytes |-> <<>>]
    /\ (status = "done" /\ result.ok) => ev.op = "construct_ok"

\* C2 witness: a failure raised two levels down was forwarded by every
\* callback and returned by the constructor.
FailureWitness ==
    /\ status = "done"
    /\ forwarded
    /\ failure = "E2"
    /\ ev.op = "construct_err"
    /\ result.err = "E2"
    /\ nnext = 2

\* C4 as stated: a write_set whose callback left a member buffer empty
\* panics, whatever the callback returned.
EmptyMemberAlwaysPanics ==
    ev.empty > 0 => (ev.op = "set_panic" /\ status = "panicked")

\* C4 amended: a write_set whose callback returned Ok and left a member buffer
\* empty panics, and returns nothing; one whose callback returned a failure
\* returns that failure, empty member or not.
EmptyMemberPanicsAfterOk ==
    /\ ev.op = "set_ok" => ev.empty = 0
    /\ (ev.empty > 0 /\ ev.e = "None") =>
          /\ ev.op = "set_panic"
          /\ status = "panicked"
          /\ result.bytes = <<>>
          /\ ~result.ok
    /\ (ev.empty > 0 /\ ev.e # "None") =>
          /\ ev.op = "set_err"
          /\ status = "running"
          /\ ret = ev.e
    /\ status = "panicked" => (ev.op = "set_panic" /\ ev.empty > 0)

\* C4 witness: a write_set panicked over an empty member that followed a
\* written one.
EmptyMemberWitness ==
    /\ status = "panicked"
    /\ ev.op = "set_panic"
    /\ ev.n = 2
    /\ ev.empty = 1

(***************************************************************************)
(* write_set as a function of the member buffers its callback filled.  The *)
(* public writers of this file emit low-tag identifiers only; the members  *)
(* here also carry the identifiers write_identifier emits for tag numbers  *)
(* from 31 on, which the comparator orders by their own rule.              *)
(***************************************************************************)
\* The most members of one SET.
MaxMembers == 3

\* A value under the identifier of Tag(c, n): identifier, length, content.
Tagged(c, pc, n, content) ==
    WriteLength(WriteIdentifier(<<>>, Tag(c, U64(n)), pc), U64(Len(content))) \o content

MemberPool ==
    { WriteBool(<<>>, TRUE), WriteBool(<<>>, FALSE), WriteI64(<<>>, U64(10)),
      WriteNull(<<>>), <<48, 0>>, <<49, 0>>,
      Tagged(Universal, Primitive, 31, <<7>>),
      Tagged(Universal, Constructed, 31, <<>>),
      Tagged(Universal, Primitive, 31, <<>>),
      Tagged(Universal, Primitive, 127, <<>>),
      Tagged(Universal, Primitive, 128, <<>>),
      Tagged(2, Primitive, 200, <<>>) }

InitSet == call = [fn |-> "set_next", bufs |-> <<>>] /\ out = <<>> /\ EncoderIdle

\* DERWriterSet::next and one value written through the writer: the member
\* buffer m joins bufs.
CallSetMember ==
    \E m \in MemberPool :
        /\ call.fn = "set_next"
        /\ Len(call.bufs) < MaxMembers
        /\ call' = [call EXCEPT !.bufs = Append(@, m)]
        /\ UNCHANGED out
        /\ UNCHANGED encVars

\* The callback returned Ok: write_set checks, sorts and emits the members
\* into a fresh parent buffer.
CallWriteSet ==
    /\ call.fn = "set_next"
    /\ ~SetAssertFails(call.bufs)
    /\ call' = [call EXCEPT !.fn = "write_set"]
    /\ out' = WriteSetEmit(<<>>, call.bufs)
    /\ UNCHANGED encVars

NextSet == CallSetMember \/ CallWriteSet

SpecSet == InitSet /\ [][NextSet]_vars

\* The first byte of a member with bit 0x20 taken out.
MaskedFirst(m) == m[1] - (IF (m[1] \div 32) % 2 = 1 THEN 32 ELSE 0)

HighTagForm(m) == m[1] % 32 = 31

\* The bytes of the tag number behind the first byte: up to the first byte
\* below 128.
ContinuationLength(m) ==
    CHOOSE k \in 1..(Len(m) - 1) : m[k + 1] < 128 /\ \A j \in 1..(k - 1) : m[j + 1] >= 128

\* a before b in the unsigned lexicographic order.
LexBefore(a, b) ==
    \E k \in 1..Len(b) :
        /\ \A j \in 1..(k - 1) : j <= Len(a) /\ a[j] = b[j]
        /\ (k > Len(a) \/ a[k] < b[k])

\* The set comparator puts a strictly before b.
StrictlyBefore(a, b) ==
    \/ MaskedFirst(a) < MaskedFirst(b)
    \/ /\ MaskedFirst(a) = MaskedFirst(b)
       /\ HighTagForm(a)
       /\ \/ ContinuationLength(a) < ContinuationLength(b)
          \/ /\ ContinuationLength(a) = ContinuationLength(b)
             /\ LexBefore(Tail(a), Tail(b))

\* The place of member i in the stable sort of bufs: behind every member
\* strictly before it and every earlier member it ties with.
SortedPlace(bufs, i) ==
    1 + Cardinality({j \in 1..Len(bufs) :
            \/ StrictlyBefore(bufs[j], bufs[i])
            \/ (j < i /\ ~StrictlyBefore(bufs[i], bufs[j]))})

RECURSIVE ConcatFrom(_, _)
\* The members of bufs in the order of their places, from place r on.
ConcatFrom(bufs, r) ==
    IF r > Len(bufs) THEN <<>>
    ELSE bufs[CHOOSE i \in 1..Len(bufs) : SortedPlace(bufs, i) = r] \o ConcatFrom(bufs, r + 1)

\* C3: the SET write_set emits is 0x31, the length of all members together,
\* and the members in the stable sort under the set comparator: by masked
\* first byte; ties in low-tag form in insertion order; ties in high-tag
\* form by continuation length, then lexicographically.  Every member
\* appears once.
SetIsStableSortOfMembers ==
    call.fn = "write_set" =>
        LET bufs == call.bufs
        IN  /\ \A r \in 1..Len(bufs) : \E i \in 1..Len(bufs) : SortedPlace(bufs, i) = r
            /\ out = <<49>> \o WriteLength(<<>>, U64(SumLen(bufs))) \o ConcatFrom(bufs, 1)

\* C3 witness: a high-tag member, INTEGER 10 and BOOLEAN FALSE then TRUE were
\* written; the BOOLEANs come first, in insertion order.
SetSortWitness ==
    /\ call.fn = "write_set"
    /\ call.bufs = <<<<2, 1, 10>>, <<1, 1, 0>>, <<1, 1, 255>>>>
    /\ out = <<49, 9, 1, 1, 0, 1, 1, 255, 2, 1, 10>>

(***************************************************************************)
(* The order in which the frames of nested write_sequence calls resolve.   *)
(***************************************************************************)
\* The buffer the frame stack[j] reserved its placeholder in.
FrameBuf(j) == TargetOf(buf, SubSeq(stack, 1, j))

\* Where the bytes appended directly in the frame stack[j] end: before the
\* identifier of the frame opened in it, if that one is still open.
RegionEnd(j) ==
    IF j < Len(stack) /\ stack[j + 1].kind = "seq"
    THEN stack[j + 1].start_pos - ExpectedLengthLength - 1
    ELSE Len(FrameBuf(j))

RECURSIVE FinalSize(_), SizeAll(_)
\* The bytes a value takes once every frame in it carries its minimal
\* length field.
FinalSize(v) ==
    IF v.t \in {"seq", "set"}
    THEN 1 + MinimalWidth(SizeAll(v.items)) + SizeAll(v.items)
    ELSE Len(Enc(v))
SizeAll(vs) == IF vs = <<>> THEN 0 ELSE FinalSize(Head(vs)) + SizeAll(Tail(vs))

\* The open frames are nested in one another in the order they were opened,
\* each still holding its unpatched placeholder.
OpenFramesNested ==
    /\ \A j \in 1..Len(stack) :
          stack[j].kind = "seq" =>
              LET b == FrameBuf(j)
                  s == stack[j].start_pos
              IN  /\ s >= ExpectedLengthLength + 1
                  /\ s <= Len(b)
                  /\ SubSeq(b, s - ExpectedLengthLength, s) = <<48, 255, 255, 255>>
    /\ \A j \in 1..(Len(stack) - 1) :
          (stack[j].kind = "seq" /\ stack[j + 1].kind = "seq") =>
              stack[j].start_pos + ExpectedLengthLength + 1 <= stack[j + 1].start_pos

\* The frame patched last was the innermost one: every frame still open in
\* its buffer was opened before it.
PatchedInnermost ==
    ev.op = "seq_ok" =>
        /\ ev.depth = Len(stack) + 1
        /\ \A j \in (SetIdx(stack) + 1)..Len(stack) : stack[j].start_pos <= ev.pos

\* C11 as stated: in every execution, when a frame is patched every frame
\* opened inside its content has completed its patch, so the length it
\* records is the final size of the values in it.
EveryInnerFramePatched ==
    /\ OpenFramesNested
    /\ PatchedInnermost
    /\ ev.op = "seq_ok" => ev.n = SizeAll(Written[Len(Written)].items)

\* C11 amended: frames resolve innermost first (the open frames are nested
\* in opening order with their placeholders unpatched, the frame patched is
\* the innermost, none is open when the constructor returns); as long as no
\* callback failed, what lies in an open frame outside the frames still open
\* in it is the finished encoding of the values written there, and the length
\* a frame records is their final size; after a failure the length is at
\* least that, the bytes an abandoned frame left being counted too.
FramesResolveInnermostFirst ==
    /\ OpenFramesNested
    /\ PatchedInnermost
    /\ status # "running" => stack = <<>>
    /\ failure = "None" =>
          \A j \in 1..Len(stack) :
              stack[j].kind = "seq" =>
                  SubSeq(FrameBuf(j), stack[j].start_pos + 1, RegionEnd(j))
                      = EncAll(stack[j].vals)
    /\ (ev.op = "seq_ok" /\ failure = "None") =>
          ev.n = SizeAll(Written[Len(Written)].items)
    /\ ev.op = "seq_ok" => ev.n >= SizeAll(Written[Len(Written)].items)

\* C11 witness: the outer of two nested frames was patched over the inner
\* one, which had shrunk to its final five bytes.
InnermostFirstWitness ==
    /\ ev.op = "seq_ok"
    /\ ev.depth = 1
    /\ failure = "None"
    /\ ev.n = 5
    /\ buf = <<48, 5, 48, 3, 1, 1, 255>>

====
